---- MODULE Spec2Model ----
(***************************************************************************)
(* Layout of the vertex record SolidBrushVertex (SolidBrushVertex.h).      *)
(*                                                                         *)
(* The header declares three type aliases, one struct under                *)
(* #pragma pack(push, 4) and a static_assert on its size.  The model       *)
(* follows the compiler over a struct declaration: it places the members   *)
(* one by one by the C layout rules (each member at the next multiple of   *)
(* its alignment, the alignment capped by the pack value), pads the end to *)
(* the struct's alignment and evaluates the static_assert.  A record       *)
(* buffer and an array of records are then written and read through the    *)
(* offsets the layout produced.                                            *)
(***************************************************************************)
EXTENDS Integers, Sequences, FiniteSets, TLC

VARIABLES
    decl,     \* the struct declaration being compiled: a sequence of fields
    pack,     \* the value of the pack directive in effect (0: none)
    offs,     \* the offsets of the members placed so far
    end,      \* the first byte after the last member placed
    salign,   \* the alignment of the struct, from the members placed so far
    size,     \* sizeof(struct), once the layout is finished
    build,    \* "layout", "sized", "ok" or "rejected"
    buf,      \* a record buffer: byte index -> byte (<<>>: not allocated)
    last,     \* field index -> the bytes last written to that field (before
              \* any write: the bytes the allocation left there)
    base,     \* the address of an array of records (-1: not allocated)
    mem,      \* the array's memory: address -> the component stored there
    elem,     \* the element of the array being filled
    filled    \* the fields of element elem already stored

vars == <<decl, pack, offs, end, salign, size, build, buf, last, base, mem,
          elem, filled>>

buildVars == <<decl, pack, offs, end, salign, size, build>>
recordVars == <<buf, last>>
arrayVars == <<base, mem, elem, filled>>

Min(a, b) == IF a <= b THEN a ELSE b
Max(a, b) == IF a >= b THEN a ELSE b
SetMax(S) == CHOOSE x \in S : \A y \in S : y <= x

----------------------------------------------------------------------------
(* Bounds of the model. *)

\* pack values tried: 1, 2, ..., 2^MaxPackLog
MaxPackLog == 4
\* distinct values written to a field of the record buffer
MaxVal == 2
\* elements of the array of records
NumElems == 3
\* array base addresses tried: the first MaxBaseUnits + 1 aligned addresses
MaxBaseUnits == 3

----------------------------------------------------------------------------
(* The C layout rules. *)

\* faulty variant: the pack directive is ignored
EffAlignNatural(t, p) == t.align

\* the alignment a member gets under the pack directive
EffAlign(t, p) == IF p = 0 THEN t.align ELSE Min(t.align, p)

\* the next multiple of a at or after n
AlignUp(n, a) == ((n + a - 1) \div a) * a

\* the offset of a member of type t placed after a member ending at e
PlaceMember(e, t, p) == AlignUp(e, EffAlign(t, p))

\* faulty variant: no padding after the last member
SizeOfUnpadded(e, a) == e

\* sizeof: the end of the last member, padded to the struct's alignment
SizeOf(e, a) == AlignUp(e, a)

\* the first byte after the last of the members, laid out in order
RECURSIVE LayoutEnd(_, _)
LayoutEnd(members, p) ==
    IF members = <<>> THEN 0
    ELSE LET k == Len(members)
             t == members[k]
         IN PlaceMember(LayoutEnd(SubSeq(members, 1, k - 1), p), t, p) + t.size

\* the alignment of an aggregate: the largest of its members' alignments
AggregateAlign(members, p) ==
    SetMax({1} \cup {EffAlign(members[i], p) : i \in 1..Len(members)})

----------------------------------------------------------------------------
(* The types. *)

float == [name |-> "float", size |-> 4, align |-> 4, csize |-> 4, n |-> 1]
Float16 == [name |-> "_Float16", size |-> 2, align |-> 2, csize |-> 2, n |-> 1]

\* a struct of members of one scalar type, declared with no pack directive
StructType(name, members) ==
    [name |-> name,
     size |-> SizeOf(LayoutEnd(members, 0), AggregateAlign(members, 0)),
     align |-> AggregateAlign(members, 0),
     csize |-> members[1].size,
     n |-> Len(members)]

\* a SIMD vector: n lanes (3 lanes stored as 4), aligned to its own size
VectorType(name, t, n) ==
    LET lanes == IF n = 3 THEN 4 ELSE n
    IN [name |-> name, size |-> t.size * lanes, align |-> t.size * lanes,
        csize |-> t.size, n |-> n]

MTLPackedFloat3 == StructType("MTLPackedFloat3", <<float, float, float>>)
simd_float2 == VectorType("simd_float2", float, 2)

\* faulty variant: the 3-float vector aliased to the 16-byte SIMD vector
packed_float3_rounded == VectorType("MTLPackedFloat3", float, 3)

\* faulty variant: the 3-half vector declared as an 8-byte SIMD vector
packed_half3_rounded == VectorType("packed_half3", Float16, 3)

packed_float3 == MTLPackedFloat3
packed_float2 == simd_float2
packed_half3 == StructType("packed_half3", <<Float16, Float16, Float16>>)

\* the rounded-up vectors a packed vector is declared to avoid
simd_float3 == VectorType("simd_float3", float, 3)
simd_half3 == VectorType("simd_half3", Float16, 3)

----------------------------------------------------------------------------
(* The declaration. *)

Field(name, type) == [name |-> name, type |-> type]

\* faulty variant: the last two fields declared in the other order
SolidBrushVertexReordered ==
    << Field("position", packed_float3),
       Field("normal", packed_float3),
       Field("bitangent", packed_float3),
       Field("color", packed_half3),
       Field("curveDistance", float) >>

SolidBrushVertex ==
    << Field("position", packed_float3),
       Field("normal", packed_float3),
       Field("bitangent", packed_float3),
       Field("curveDistance", float),
       Field("color", packed_half3) >>

\* the value of the pack directive around the struct
PackValue == 4

\* the disabled field, and the struct with it enabled where it is written
materialProperties == Field("materialProperties", packed_float2)
MaterialPosition == 4

WithMaterialProperties ==
    SubSeq(SolidBrushVertex, 1, MaterialPosition - 1)
        \o <<materialProperties>>
        \o SubSeq(SolidBrushVertex, MaterialPosition, Len(SolidBrushVertex))

\* the size the active static_assert states, and the disabled one
AssertedSize == 48
DisabledAssertedSize == 56

\* faulty variant: no assertion is active
StaticAssertDisabled(sz) == TRUE

\* faulty variant: the assertion only bounds the size
StaticAssertAtMost(sz) == sz <= AssertedSize

StaticAssertHolds(sz) == sz = AssertedSize

\* sizeof(struct) of a declaration d under pack value p
StructSize(d, p) ==
    LET members == [k \in 1..Len(d) |-> d[k].type]
    IN SizeOf(LayoutEnd(members, p), AggregateAlign(members, p))

----------------------------------------------------------------------------
(* The declarations compiled: the declared one and its edits. *)

FieldTypes ==
    {float, Float16, packed_float2, packed_float3, packed_half3,
     simd_float3, simd_half3}

Indices == 1..Len(SolidBrushVertex)

Orders ==
    {p \in [Indices -> Indices] : \A i, j \in Indices : p[i] = p[j] => i = j}

Permuted == {[i \in Indices |-> SolidBrushVertex[p[i]]] : p \in Orders}

Retyped ==
    {[SolidBrushVertex EXCEPT ![k].type = t] : k \in Indices, t \in FieldTypes}

Removed ==
    {SubSeq(SolidBrushVertex, 1, k - 1)
        \o SubSeq(SolidBrushVertex, k + 1, Len(SolidBrushVertex)) : k \in Indices}

Variants == Permuted \cup Retyped \cup Removed \cup {WithMaterialProperties}

Packs == {2 ^ k : k \in 0..MaxPackLog}

----------------------------------------------------------------------------
(* The build: layout of the struct, then the static_assert. *)

InitIdle ==
    /\ buf = <<>>
    /\ last = <<>>
    /\ base = -1
    /\ mem = <<>>
    /\ elem = 0
    /\ filled = {}

InitLayout ==
    /\ offs = <<>>
    /\ end = 0
    /\ salign = 1
    /\ size = 0
    /\ build = "layout"

\* any of the declarations, under any of the pack values
Init ==
    /\ decl \in Variants
    /\ pack \in Packs
    /\ InitLayout
    /\ InitIdle

\* the header as it is written
InitDeclared ==
    /\ decl = SolidBrushVertex
    /\ pack = PackValue
    /\ InitLayout
    /\ InitIdle

\* the compiler places the next member of the struct
LayoutMember ==
    /\ build = "layout"
    /\ Len(offs) < Len(decl)
    /\ LET t == decl[Len(offs) + 1].type
           o == PlaceMember(end, t, pack)
       IN /\ offs' = Append(offs, o)
          /\ end' = o + t.size
          /\ salign' = Max(salign, EffAlign(t, pack))
    /\ UNCHANGED <<decl, pack, size, build>>
    /\ UNCHANGED <<recordVars, arrayVars>>

\* the closing brace: the size of the struct is fixed
FinishLayout ==
    /\ build = "layout"
    /\ Len(offs) = Len(decl)
    /\ size' = SizeOf(end, salign)
    /\ build' = "sized"
    /\ UNCHANGED <<decl, pack, offs, end, salign>>
    /\ UNCHANGED <<recordVars, arrayVars>>

\* static_assert(sizeof(struct SolidBrushVertex) == 48, "ensure packing")
StaticAssert ==
    /\ build = "sized"
    /\ build' = IF StaticAssertHolds(size) THEN "ok" ELSE "rejected"
    /\ UNCHANGED <<decl, pack, offs, end, salign, size>>
    /\ UNCHANGED <<recordVars, arrayVars>>

NextBuild == LayoutMember \/ FinishLayout \/ StaticAssert

Next == NextBuild

Spec == Init /\ [][Next]_vars

\* offsetof(struct, name), once the member is placed
OffsetOfField(name) ==
    offs[CHOOSE k \in 1..Len(decl) : decl[k].name = name]

----------------------------------------------------------------------------
(* A record buffer: sizeof(struct) bytes, byte a at index a + 1. *)

\* faulty variant: a 3-component vector is stored as a 4-lane vector
FieldWidthRounded(t) == IF t.n = 3 THEN 4 * t.csize ELSE t.size

\* the bytes a member of type t occupies
FieldWidth(t) == t.size

\* the w bytes of the v-th value written: distinct at every byte position
Value(v, w) == [j \in 1..w |-> (16 * v + j) % 256]

StoreBytes(m, at, bytes) ==
    [a \in DOMAIN m |->
        IF a - 1 \in at..(at + Len(bytes) - 1) THEN bytes[a - at] ELSE m[a]]

LoadBytes(m, at, w) == [j \in 1..w |-> m[at + j]]

\* the value of member k read from the record buffer
ReadField(k) == LoadBytes(buf, offs[k], FieldWidth(decl[k].type))

\* a record is allocated; its bytes are not initialised
AllocRecord ==
    /\ build = "ok"
    /\ buf = <<>>
    /\ \E fill \in {0, 255} :
          /\ buf' = [a \in 1..size |-> fill]
          /\ last' = [k \in 1..Len(decl) |->
                        [j \in 1..FieldWidth(decl[k].type) |-> fill]]
    /\ UNCHANGED <<buildVars, arrayVars>>

\* record.member = value
WriteField(k, v) ==
    /\ buf # <<>>
    /\ LET bytes == Value(v, FieldWidth(decl[k].type))
       IN /\ buf' = StoreBytes(buf, offs[k], bytes)
          /\ last' = [last EXCEPT ![k] = bytes]
    /\ UNCHANGED <<buildVars, arrayVars>>

NextRecord ==
    \/ NextBuild
    \/ AllocRecord
    \/ \E k \in 1..Len(decl), v \in 1..MaxVal : WriteField(k, v)

SpecRecord == InitDeclared /\ [][NextRecord]_vars

----------------------------------------------------------------------------
(* An array of NumElems records: the byte at address a is mem[a - base + 1]. *)

\* faulty variant: the stride is the sum of the field widths, without the padding
ElementAddrUnpadded(i) == base + i * end

\* &array[i]
ElementAddr(i) == base + i * size

\* &array[i].member
FieldAddr(i, k) == ElementAddr(i) + offs[k]

\* the address of component c (from 0) of member k of element i
ComponentAddr(i, k, c) == FieldAddr(i, k) + c * decl[k].type.csize

\* the array is allocated at an address aligned as the struct is
AllocArray ==
    /\ build = "ok"
    /\ base = -1
    /\ \E b \in 0..MaxBaseUnits : base' = salign * b
    /\ mem' = [a \in 1..(NumElems * size) |-> <<>>]
    /\ elem' = 0
    /\ filled' = {}
    /\ UNCHANGED <<buildVars, recordVars>>

\* array[elem].member = value: every component is stored at its address
StoreField(k) ==
    /\ base # -1
    /\ elem < NumElems
    /\ k \notin filled
    /\ LET t == decl[k].type
           Comp(a) == {c \in 0..(t.n - 1) :
                         base + a - 1 \in ComponentAddr(elem, k, c)
                                          ..(ComponentAddr(elem, k, c) + t.csize - 1)}
       IN mem' = [a \in DOMAIN mem |->
                    IF Comp(a) # {} THEN <<elem, k, CHOOSE c \in Comp(a) : TRUE>>
                    ELSE mem[a]]
    /\ filled' = filled \cup {k}
    /\ UNCHANGED <<base, elem>>
    /\ UNCHANGED <<buildVars, recordVars>>

\* the fill loop moves to the next element
NextElement ==
    /\ base # -1
    /\ elem < NumElems
    /\ filled = 1..Len(decl)
    /\ elem' = elem + 1
    /\ filled' = {}
    /\ UNCHANGED <<base, mem>>
    /\ UNCHANGED <<buildVars, recordVars>>

NextArray ==
    \/ NextBuild
    \/ AllocArray
    \/ \E k \in 1..Len(decl) : StoreField(k)
    \/ NextElement

SpecArray == InitDeclared /\ [][NextArray]_vars

----------------------------------------------------------------------------
(* The properties. *)

\* the header as written is the declaration being compiled
IsDeclared == decl = SolidBrushVertex /\ pack = PackValue

\* every member of the declaration has been placed
Placed == Len(offs) = Len(decl)

\* the bytes member k occupies
FieldRange(k) == offs[k]..(offs[k] + decl[k].type.size - 1)

\* C1: the size of SolidBrushVertex, laid out from its declared fields under
\* pack(4), is exactly 48 bytes, and the active static_assert holds.
C1_SizeIs48 ==
    IsDeclared =>
        /\ build # "layout" => size = 48
        /\ build \notin {"layout", "sized"} => build = "ok"

C1_Witness == IsDeclared /\ build = "ok" /\ size = 48

\* C2: the byte offsets of the declared fields under pack(4) are position=0,
\* normal=12, bitangent=24, curveDistance=36, color=40.
C2_Offsets ==
    (IsDeclared /\ Placed) =>
        /\ OffsetOfField("position") = 0
        /\ OffsetOfField("normal") = 12
        /\ OffsetOfField("bitangent") = 24
        /\ OffsetOfField("curveDistance") = 36
        /\ OffsetOfField("color") = 40

C2_Witness == IsDeclared /\ Placed /\ build = "sized"

\* C3: SolidBrushVertex declares exactly five fields, in the order position,
\* normal, bitangent, curveDistance, color, of widths 12, 12, 12, 4 and 6 bytes:
\* a 3-float vector takes 12 bytes (not 16) and the 3-half vector 6 (not 8).
C3_FieldsAndWidths ==
    IsDeclared =>
        /\ Len(decl) = 5
        /\ [k \in 1..Len(decl) |-> decl[k].name]
             = <<"position", "normal", "bitangent", "curveDistance", "color">>
        /\ [k \in 1..Len(decl) |-> decl[k].type.size] = <<12, 12, 12, 4, 6>>
        /\ \A k \in 1..Len(decl) :
             decl[k].type.n = 3 =>
                 decl[k].type.size = 3 * decl[k].type.csize
        /\ \A k \in 1..Len(offs) : end >= offs[k] + decl[k].type.size

C3_Witness ==
    /\ IsDeclared
    /\ Placed
    /\ end - offs[Len(offs)] = 6
    /\ \A k \in 1..(Len(offs) - 1) : offs[k + 1] - offs[k] \in {4, 12}

\* C4: with the disabled materialProperties field (8 bytes, alignment 8 capped
\* to 4 by the pack directive) enabled between bitangent and curveDistance, the
\* size is exactly 56 bytes: the disabled assertion's size, not the active one's.
C4_MaterialSizeIs56 ==
    (decl = WithMaterialProperties /\ pack = PackValue) =>
        /\ decl[4].name = "materialProperties"
        /\ decl[4].type.size = 8
        /\ decl[4].type.align = 8
        /\ EffAlign(decl[4].type, pack) = 4
        /\ build # "layout" =>
             /\ size = 56
             /\ size = DisabledAssertedSize
             /\ size # AssertedSize
        /\ build \notin {"layout", "sized"} => build = "rejected"

C4_Witness ==
    /\ decl = WithMaterialProperties
    /\ pack = PackValue
    /\ build = "rejected"
    /\ size = 56

\* C6: the size check is a build-time gate: a declaration whose computed size
\* differs from 48 is rejected by the static assertion, the declared one passes,
\* and the build has no other outcome; nothing has run when it is rejected.
C6_BuildGate ==
    /\ build \in {"layout", "sized", "ok", "rejected"}
    /\ build \in {"ok", "rejected"} =>
         /\ build = "rejected" <=> StructSize(decl, pack) # 48
         /\ size = StructSize(decl, pack)
    /\ (IsDeclared /\ build \in {"ok", "rejected"}) => build = "ok"
    /\ build # "ok" => (buf = <<>> /\ base = -1)

C6_Witness ==
    /\ decl = SolidBrushVertex
    /\ pack # PackValue
    /\ build = "rejected"
    /\ size # 48

\* C7 as stated: every permutation or retyping of the five fields that passes
\* the sizeof == 48 assertion places each field at its declared offset.
C7_Original ==
    (decl \in Permuted \cup Retyped /\ build = "ok") =>
        /\ OffsetOfField("position") = 0
        /\ OffsetOfField("normal") = 12
        /\ OffsetOfField("bitangent") = 24
        /\ OffsetOfField("curveDistance") = 36
        /\ OffsetOfField("color") = 40

\* C7, amended: a declaration that keeps the declared field order and pack(4),
\* changes the type of at most one field and passes the sizeof == 48 assertion
\* places position, normal, bitangent and curveDistance at 0, 12, 24 and 36,
\* and color at 40 unless curveDistance is the field changed.
C7_Amended ==
    (decl \in Retyped /\ pack = PackValue /\ build = "ok") =>
        /\ OffsetOfField("position") = 0
        /\ OffsetOfField("normal") = 12
        /\ OffsetOfField("bitangent") = 24
        /\ OffsetOfField("curveDistance") = 36
        /\ decl[4].type = float => OffsetOfField("color") = 40

C7_Witness ==
    /\ decl \in Retyped
    /\ decl # SolidBrushVertex
    /\ pack = PackValue
    /\ build = "ok"

\* C8: the byte ranges of the five declared fields are pairwise disjoint, lie
\* within bytes 0..47, follow one another with no padding between them and
\* cover exactly bytes 0..45; bytes 46 and 47 are padding, in no field.
C8_RangesAndPadding ==
    (IsDeclared /\ build # "layout") =>
        /\ \A j, k \in 1..Len(decl) :
             j # k => FieldRange(j) \cap FieldRange(k) = {}
        /\ \A k \in 1..Len(decl) : FieldRange(k) \subseteq 0..47
        /\ \A k \in 1..(Len(decl) - 1) :
             offs[k + 1] = offs[k] + decl[k].type.size
        /\ UNION {FieldRange(k) : k \in 1..Len(decl)} = 0..45
        /\ (0..(size - 1)) \ UNION {FieldRange(k) : k \in 1..Len(decl)}
             = {46, 47}

C8_Witness == IsDeclared /\ build = "sized" /\ end = 46 /\ size = end + 2

\* C5: in a 48-byte record buffer, each field read back at its offset and
\* width holds exactly the bytes last written to it, whatever was written to
\* the other fields and in whatever order.
C5_RoundTrip ==
    buf # <<>> =>
        /\ Len(buf) = 48
        /\ \A k \in 1..Len(decl) : ReadField(k) = last[k]
        /\ [k \in 1..Len(decl) |-> Len(last[k])] = <<12, 12, 12, 4, 6>>

C5_Witness ==
    /\ buf # <<>>
    /\ \A k \in 1..Len(decl) :
         \E v \in 1..MaxVal : last[k] = Value(v, decl[k].type.size)
    /\ \E j, k \in 1..Len(decl) : last[j][1] # last[k][1]

\* C9: in an array of records at a 4-byte-aligned address, field f of element
\* i lies at byte 48 * i + offset(f) of the array; every float component is at
\* an address that is a multiple of 4, every half component at a multiple of
\* 2, and no store to one field reaches the bytes of another.
DeclaredOffset(k) == <<0, 12, 24, 36, 40>>[k]

C9_ArrayAddressing ==
    base # -1 =>
        /\ base % 4 = 0
        /\ \A i \in 0..(NumElems - 1), k \in 1..Len(decl) :
             /\ FieldAddr(i, k) = base + 48 * i + DeclaredOffset(k)
             /\ \A c \in 0..(decl[k].type.n - 1) :
                  LET w == decl[k].type.csize
                      a == base + 48 * i + DeclaredOffset(k) + c * w
                  IN /\ w \in {2, 4}
                     /\ w = 4 <=> decl[k].name # "color"
                     /\ ComponentAddr(i, k, c) = a
                     /\ a % w = 0
                     /\ (i < elem \/ (i = elem /\ k \in filled)) =>
                          \A b \in a..(a + w - 1) :
                              mem[b - base + 1] = <<i, k, c>>

C9_Witness ==
    /\ base > 0
    /\ elem = NumElems
    /\ \A a \in DOMAIN mem :
         mem[a] = <<>> <=> (a - 1) % 48 \in {46, 47}

====
